---- MODULE Spec2Model ----
(***************************************************************************)
(* Model of pynit's project handler (src/pynit/handler/project.py): the    *)
(* directory scan, the per-dataclass cache file, the six filter slots and  *)
(* the Project facade that ties them together.                             *)
(*                                                                         *)
(* Strings that the code matches with regular expressions or sorts are     *)
(* sequences of one-character strings.          *)
(***************************************************************************)
EXTENDS Integers, Sequences, FiniteSets, TLC

VARIABLES
    disk,      \* the files under the project path
    cache,     \* the .class_dataframe file of each dataclass
    main,      \* the Project object
    copy,      \* the Project object returned by the last Project.__call__
    heap,      \* the list objects bound to Project.__filters
    lastOp,    \* the operation that ran last, and on which object
    lastErr,   \* the exception it raised, or "none"
    nchanges,  \* how often the files under the project path have changed
    io         \* other processes inside scan_prj, save_df or reset, and the
               \* bytes of the cache file they open

vars == <<disk, cache, main, copy, heap, lastOp, lastErr, nchanges, io>>

\* An optional list: None, or Some(list).
None == [some |-> FALSE, v |-> <<>>]
Some(l) == [some |-> TRUE, v |-> l]
NaN == <<"NaN">>

----------------------------------------------------------------------------
(* Character strings                                                        *)

\* ASCII code of the characters the model's names are written with.
Ord(c) ==
    CASE c = "-" -> 45 [] c = "." -> 46 [] c = "/" -> 47
      [] c = "1" -> 49 [] c = "2" -> 50
      [] c = "D" -> 68 [] c = "P" -> 80 [] c = "R" -> 82
      [] c = "a" -> 97 [] c = "b" -> 98 [] c = "c" -> 99 [] c = "d" -> 100
      [] c = "e" -> 101 [] c = "g" -> 103 [] c = "i" -> 105 [] c = "j" -> 106
      [] c = "l" -> 108 [] c = "m" -> 109 [] c = "n" -> 110 [] c = "o" -> 111
      [] c = "p" -> 112 [] c = "r" -> 114 [] c = "s" -> 115 [] c = "t" -> 116
      [] c = "u" -> 117 [] c = "v" -> 118 [] c = "x" -> 120 [] c = "z" -> 122
      [] OTHER -> 0

\* Python's str comparison: the first differing character decides, a proper
\* prefix is smaller.
RECURSIVE StrLess(_, _)
StrLess(a, b) ==
    IF b = <<>> THEN FALSE
    ELSE IF a = <<>> THEN TRUE
    ELSE IF Head(a) = Head(b) THEN StrLess(Tail(a), Tail(b))
    ELSE Ord(Head(a)) < Ord(Head(b))

\* os.path.join of path segments.
RECURSIVE PathJoin(_)
PathJoin(segs) ==
    IF segs = <<>> THEN <<>>
    ELSE IF Len(segs) = 1 THEN segs[1]
    ELSE segs[1] \o <<"/">> \o PathJoin(Tail(segs))

\* sorted(list(set(values))): NaN (a float) sorts before every str in Python 2.
RECURSIVE Sorted(_)
Sorted(S) ==
    IF S = {} THEN <<>>
    ELSE LET m == CHOOSE x \in S :
                     \A y \in S \ {x} : x = NaN \/ (y # NaN /\ StrLess(x, y))
         IN <<m>> \o Sorted(S \ {m})

Range(s) == {s[i] : i \in DOMAIN s}

\* re.search of one alternative of a pattern in s.  "." matches any character,
\* every other character of the model's alphabet matches itself; anchored is
\* a trailing "$".
ReSearch(pat, anchored, s) ==
    \E i \in 1..(Len(s) + 1) :
        /\ i + Len(pat) - 1 <= Len(s)
        /\ \A k \in 1..Len(pat) : pat[k] = "." \/ pat[k] = s[i + k - 1]
        /\ anchored => i + Len(pat) - 1 = Len(s)

\* Series.str.contains('|'.join(tags)): the join of an empty list is the empty
\* pattern, which is found in every string.
StrContains(s, tags, anchored) ==
    LET alts == IF tags = <<>> THEN {<<>>} ELSE Range(tags)
    IN \E pat \in alts : ReSearch(pat, anchored, s)

\* re.match(r'^[.].+', fname)
IsHidden(fname) == Len(fname) >= 2 /\ fname[1] = "."

----------------------------------------------------------------------------
(* Program constants                                                        *)

ds_type == << <<"D","a","t","a">>,
              <<"P","r","o","c","e","s","s","i","n","g">>,
              <<"R","e","s","u","l","t","s">> >>

img_ext == << <<".","n","i","i">>, <<".","n","i","i",".","g","z">> >>

txt_ext == << <<".","x","l","s">>, <<".","x","l","s","x">>, <<".","c","s","v">>,
              <<".","t","s","v">>, <<".","j","s","o","n">> >>

\* itertools.chain.from_iterable over a list of str yields its characters.
RECURSIVE ChainFromIterable(_)
ChainFromIterable(strs) ==
    IF strs = <<>> THEN <<>>
    ELSE [i \in 1..Len(Head(strs)) |-> <<Head(strs)[i]>>]
             \o ChainFromIterable(Tail(strs))

ref_exts == ChainFromIterable(img_ext \o txt_ext)

----------------------------------------------------------------------------
(* Code of the package that is outside project.py                           *)

\* methods.raiseerror(exception, message): raises the exception.
raiseerror(exception) == exception

\* methods.path_splitter(relpath): the directory names of the relative path,
\* the dataclass folder first.
path_splitter(idx, dirs) == <<ds_type[idx + 1]>> \o dirs

----------------------------------------------------------------------------
(* Data frames: cols is the column index, rows the records in row order.    *)

EmptyDataFrame == [cols |-> <<>>, rows |-> <<>>]

IntLabel(k) == <<"0", "1", "2", "3", "4", "5", "6", "7">>[k + 1]

HasCol(df, c) == c \in Range(df.cols)

\* df[df[col].isin(values)] and the other boolean-mask selections.
Select(df, Keep(_)) == [cols |-> df.cols, rows |-> SelectSeq(df.rows, Keep)]

\* df.sort_values('Abspath')
RECURSIVE SortByAbspath(_)
SortByAbspath(R) ==
    IF R = {} THEN <<>>
    ELSE LET m == CHOOSE r \in R :
                     \A q \in R \ {r} : StrLess(r["Abspath"], q["Abspath"])
         IN <<m>> \o SortByAbspath(R \ {m})

update_columns(idx, single_session) ==
    IF idx = 0 THEN
        IF single_session
        THEN (0 :> "DataClass" @@ 1 :> "Subject" @@ 3 :> "Session" @@ 2 :> "DataType")
        ELSE (0 :> "DataClass" @@ 1 :> "Subject" @@ 2 :> "Session" @@ 3 :> "DataType")
    ELSE IF idx = 1 THEN
        (0 :> "DataClass" @@ 1 :> "Pipeline" @@ 2 :> "Step" @@ 3 :> "Subject"
           @@ 4 :> "Session")
    ELSE IF idx = 2 THEN
        (0 :> "DataClass" @@ 1 :> "Pipeline" @@ 2 :> "Report" @@ 3 :> "Subject"
           @@ 4 :> "Session")
    ELSE (0 :> "DataClass")

reorder_columns(idx, single_session) ==
    IF idx = 0 THEN
        IF single_session THEN <<"Subject", "DataType", "Filename", "Abspath">>
        ELSE <<"Subject", "Session", "DataType", "Filename", "Abspath">>
    ELSE IF idx = 1 THEN
        IF single_session THEN <<"Pipeline", "Step", "Subject", "Filename", "Abspath">>
        ELSE <<"Pipeline", "Step", "Subject", "Session", "Filename", "Abspath">>
    ELSE
        IF single_session THEN <<"Pipeline", "Report", "Subject", "Filename", "Abspath">>
        ELSE <<"Pipeline", "Report", "Subject", "Session", "Filename", "Abspath">>

\* A detection that takes six stacked columns as the single-session layout of
\* every dataclass, Data included.
SingleSessionColumns_six_for_all(idx) == IF idx = 0 THEN 6 ELSE 6

\* The number of columns of the stacked table that flags a single session.
SingleSessionColumns(idx) == IF idx = 0 THEN 5 ELSE 6

\* The files os.walk finds under the dataclass folder, hidden ones dropped.
WalkFiles(d, idx) == {f \in d : f.dc = idx /\ ~IsHidden(f.name)}

MaxDepth(files) ==
    IF files = {} THEN 0
    ELSE CHOOSE n \in {Len(f.dirs) : f \in files} :
             \A f \in files : Len(f.dirs) <= n

parsing_datatree(d, idx) ==
    LET files == WalkFiles(d, idx)
        depth == MaxDepth(files)
        ncols == depth + 3
        empty_prj == files = {} \/ depth = 0
        single_session == ~empty_prj /\ ncols = SingleSessionColumns(idx)
        columns == update_columns(idx, single_session)
        label(k) == IF k \in DOMAIN columns THEN columns[k] ELSE IntLabel(k)
        cols == [k \in 1..(depth + 1) |-> label(k - 1)] \o <<"Abspath", "Filename">>
        row(f) ==
            LET split == path_splitter(idx, f.dirs)
            IN [c \in Range(cols) |->
                   IF c = "Filename" THEN f.name
                   ELSE IF c = "Abspath" THEN PathJoin(split \o <<f.name>>)
                   ELSE LET k == CHOOSE k \in 0..depth : label(k) = c
                        IN IF k < Len(split) THEN split[k + 1] ELSE NaN]
    IN IF empty_prj
       THEN [df |-> EmptyDataFrame, single_session |-> single_session,
             empty_prj |-> TRUE]
       ELSE [df |-> [cols |-> cols, rows |-> SortByAbspath({row(f) : f \in files})],
             single_session |-> single_session, empty_prj |-> FALSE]

initial_filter(df, data_class, exts) ==
    LET InClass(r) == r["DataClass"] \in Range(data_class)
        df1 == IF data_class # <<>> /\ HasCol(df, "DataClass")
               THEN Select(df, InClass) ELSE df
        HasExt(r) == StrContains(r["Filename"], exts, TRUE)
    IN IF exts # <<>> THEN Select(df1, HasExt) ELSE df1

\* df[columns]: KeyError when a label is missing.
Reorder(df, columns) ==
    IF \A i \in DOMAIN columns : HasCol(df, columns[i])
    THEN [df |-> [cols |-> columns,
                  rows |-> [i \in DOMAIN df.rows |->
                               [c \in Range(columns) |-> df.rows[i][c]]]],
          err |-> "none"]
    ELSE [df |-> df, err |-> "KeyError"]

----------------------------------------------------------------------------
(* The Project object.  A world is the object an operation runs on (prj),   *)
(* the filter lists (heap; live are the lists other objects hold), the      *)
(* cache files and the exception that is propagating (err).                 *)

Refs == 1..3
FreshFilters == <<None, None, None, None, None, None>>

\* bool(x) of an optional list
Truthy(x) == x.some /\ x.v # <<>>

Raise(w, e) == [w EXCEPT !.err = raiseerror(e)]

Filters(w) == w.heap[w.prj.fref]

\* Project.df
DfOf(p) == p.df

\* A local name: F applied to the value v.
Bind(v, F(_)) == F(v)

\* The next statement runs on the world w unless an exception propagates.
Then(w, op(_)) == IF w.err # "none" THEN w ELSE op(w)

\* Project.__update: steps pairs each attribute with the column it is read
\* from, "" where the attribute is set to None.
RECURSIVE UpdateSteps(_, _)
UpdateSteps(w, steps) ==
    IF steps = <<>> THEN w
    ELSE IF Head(steps)[2] = ""
    THEN UpdateSteps([w EXCEPT !.prj[Head(steps)[1]] = None], Tail(steps))
    ELSE IF ~HasCol(DfOf(w.prj), Head(steps)[2])
    THEN Raise(w, "UpdateAttributesFailed")
    ELSE UpdateSteps(
             [w EXCEPT !.prj[Head(steps)[1]] =
                 Some(Sorted({DfOf(w.prj).rows[i][Head(steps)[2]] :
                                 i \in DOMAIN DfOf(w.prj).rows}))],
             Tail(steps))

UpdateAttrs(p) ==
    LET sess == IF p.single_session THEN "" ELSE "Session"
    IN IF p.dc_idx # 2 THEN
           IF p.dc_idx = 0
           THEN << <<"subjects", "Subject">>, <<"sessions", sess>>,
                   <<"dtypes", "DataType">>, <<"pipelines", "">>,
                   <<"steps", "">>, <<"results", "">> >>
           ELSE IF p.dc_idx = 1
           THEN << <<"subjects", "Subject">>, <<"sessions", sess>>,
                   <<"dtypes", "">>, <<"pipelines", "Pipeline">>,
                   <<"steps", "Step">>, <<"results", "">> >>
           ELSE << <<"subjects", "Subject">>, <<"sessions", sess>> >>
       ELSE << <<"subjects", "Subject">>, <<"sessions", sess>>,
               <<"dtypes", "">>, <<"pipelines", "Pipeline">>,
               <<"results", "Report">>, <<"steps", "">> >>

Update(w) ==
    IF Len(DfOf(w.prj).rows) > 0 THEN UpdateSteps(w, UpdateAttrs(w.prj))
    ELSE [w EXCEPT !.prj.subjects = None, !.prj.sessions = None, !.prj.dtypes = None,
                   !.prj.pipelines = None, !.prj.steps = None, !.prj.results = None,
                   !.prj.empty_project = TRUE]

\* One stage of applying_filters, run when its slot is set:
\* df[df.<col>.isin(values)].
IsinStage(r, set, col, values) ==
    IF r.err # "none" \/ ~set THEN r
    ELSE IF ~HasCol(r.df, col) THEN [df |-> r.df, err |-> "AttributeError"]
    ELSE LET Keep(row) == row[col] \in Range(values)
         IN [df |-> Select(r.df, Keep), err |-> "none"]

\* An ignore stage that drops a record only when every tag is found in its
\* file name.
ContainsStage_ignore_needs_all(r, set, tags, anchored, negate) ==
    IF r.err # "none" \/ ~set THEN r
    ELSE LET Keep(row) ==
                 IF negate
                 THEN \E i \in DOMAIN tags : ~ReSearch(tags[i], anchored, row["Filename"])
                 ELSE StrContains(row["Filename"], tags, anchored)
         IN [df |-> Select(r.df, Keep), err |-> "none"]

\* df[df.Filename.str.contains(...)], negated for the ignore stage.
ContainsStage(r, set, tags, anchored, negate) ==
    IF r.err # "none" \/ ~set THEN r
    ELSE LET Keep(row) == StrContains(row["Filename"], tags, anchored) # negate
         IN [df |-> Select(r.df, Keep), err |-> "none"]

\* Stages of which the last, the extension stage, when an extension list is
\* set, selects from the table as it was given instead of from what the
\* earlier stages kept.
applying_filters_ext_restarts(dc_idx, F, ext, df) ==
    IF Len(df.rows) > 0 THEN
        LET r0 == [df |-> df, err |-> "none"]
            r1 == IsinStage(r0, Truthy(F[1]), "Subject", F[1].v)
            r2 == IsinStage(r1, Truthy(F[2]), "Session", F[2].v)
            r3 == IsinStage(r2, Truthy(F[3]),
                            IF dc_idx = 0 THEN "DataType" ELSE "Pipeline", F[3].v)
            r4 == IsinStage(r3, Truthy(F[4]) /\ dc_idx \in {1, 2},
                            IF dc_idx = 1 THEN "Step" ELSE "Report", F[4].v)
            r5 == ContainsStage(r4, F[5] # None, F[5].v, FALSE, FALSE)
            r6 == ContainsStage(r5, F[6] # None, F[6].v, FALSE, TRUE)
            r7 == ContainsStage(IF Truthy(ext) THEN [df |-> df, err |-> r6.err] ELSE r6,
                                Truthy(ext), ext.v, TRUE, FALSE)
        IN r7
    ELSE [df |-> df, err |-> "none"]

\* Project.applying_filters
applying_filters(dc_idx, F, ext, df) ==
    IF Len(df.rows) > 0 THEN
        LET r0 == [df |-> df, err |-> "none"]
            r1 == IsinStage(r0, Truthy(F[1]), "Subject", F[1].v)
            r2 == IsinStage(r1, Truthy(F[2]), "Session", F[2].v)
            r3 == IsinStage(r2, Truthy(F[3]),
                            IF dc_idx = 0 THEN "DataType" ELSE "Pipeline", F[3].v)
            r4 == IsinStage(r3, Truthy(F[4]) /\ dc_idx \in {1, 2},
                            IF dc_idx = 1 THEN "Step" ELSE "Report", F[4].v)
            r5 == ContainsStage(r4, F[5] # None, F[5].v, FALSE, FALSE)
            r6 == ContainsStage(r5, F[6] # None, F[6].v, FALSE, TRUE)
            r7 == ContainsStage(r6, Truthy(ext), ext.v, TRUE, FALSE)
        IN r7
    ELSE [df |-> df, err |-> "none"]

\* apply() with the attributes updated before the filtered table is stored.
apply_updates_first(w) ==
    Bind(applying_filters(w.prj.dc_idx, Filters(w), w.prj.ext_filter, w.prj.df),
         LAMBDA r : IF r.err # "none" THEN [w EXCEPT !.err = r.err]
                    ELSE [Update(w) EXCEPT !.prj.df = r.df])

\* Project.apply
apply(w) ==
    Bind(applying_filters(w.prj.dc_idx, Filters(w), w.prj.ext_filter, w.prj.df),
         LAMBDA r : IF r.err # "none" THEN [w EXCEPT !.err = r.err]
                    ELSE Update([w EXCEPT !.prj.df = r.df]))

\* A save_df that pickles the table as the filters in force narrow it.
save_df_filtered(w, dc_idx) ==
    [w EXCEPT !.cache[dc_idx] =
         <<applying_filters(w.prj.dc_idx, Filters(w), w.prj.ext_filter, w.prj.df).df>>]

\* Project.save_df
save_df(w, dc_idx) == [w EXCEPT !.cache[dc_idx] = <<w.prj.df>>]

\* Project.scan_prj
scan_prj(w, d) ==
    Bind(parsing_datatree(d, w.prj.dc_idx), LAMBDA t :
    Bind([w EXCEPT !.prj.df = t.df, !.prj.single_session = t.single_session],
         LAMBDA w1 :
    IF t.empty_prj
    THEN save_df([w1 EXCEPT !.prj.empty_project = TRUE], w1.prj.dc_idx)
    ELSE Bind(initial_filter(t.df, ds_type, ref_exts), LAMBDA f :
         Bind(Reorder(f, reorder_columns(w.prj.dc_idx, t.single_session)),
              LAMBDA o :
         IF Len(f.rows) > 0 /\ o.err # "none"
         THEN [w1 EXCEPT !.prj.df = f, !.err = o.err]
         ELSE Then(Update(IF Len(f.rows) > 0
                          THEN [w1 EXCEPT !.prj.df = o.df,
                                          !.prj.empty_project = FALSE]
                          ELSE [w1 EXCEPT !.prj.df = f,
                                          !.prj.empty_project = TRUE]),
                   LAMBDA w3 : save_df(w3, w3.prj.dc_idx))))))

\* The column counts of the stacked table, used for the cached one.
CachedSingleSessionColumns_as_stacked(idx) == IF idx = 0 THEN 5 ELSE 6

\* The number of columns of a cached table that flags a single session.
CachedSingleSessionColumns(idx) == IF idx = 0 THEN 4 ELSE 5

\* A cache file is <<>> when it does not exist or cannot be unpickled, else
\* <<the pickled table>>.
Missing == <<>>

\* self.__dc_idx = i; self.scan_prj() for each i of idxs.
RECURSIVE RescanLoop(_, _, _)
RescanLoop(w, d, idxs) ==
    IF idxs = <<>> THEN w
    ELSE Then(scan_prj([w EXCEPT !.prj.dc_idx = Head(idxs)], d),
              LAMBDA w1 : RescanLoop(w1, d, Tail(idxs)))

\* A reset that scans the active dataclass whether or not its cache file can
\* be loaded.
reset_never_loads(w, d, rescan) ==
    Then(RescanLoop(w, d, IF rescan THEN <<1, 2, w.prj.dc_idx>>
                          ELSE <<w.prj.dc_idx>>),
         LAMBDA w1 : IF Len(w1.prj.df.rows) > 0
                     THEN [w1 EXCEPT !.prj.empty_project = FALSE]
                     ELSE w1)

\* Project.reset: a rescan scans Processing, Results and then the active
\* dataclass; otherwise the cache is loaded, and scanned when that fails.
reset(w, d, rescan) ==
    Then(IF rescan \/ w.cache[w.prj.dc_idx] = Missing
         THEN RescanLoop(w, d, IF rescan THEN <<1, 2, w.prj.dc_idx>>
                               ELSE <<w.prj.dc_idx>>)
         ELSE [w EXCEPT !.prj.df = w.cache[w.prj.dc_idx][1],
                        !.prj.single_session =
                            IF w.prj.empty_project THEN @
                            ELSE Len(w.cache[w.prj.dc_idx][1].cols)
                                     = CachedSingleSessionColumns(w.prj.dc_idx)],
         LAMBDA w1 : IF Len(w1.prj.df.rows) > 0
                     THEN [w1 EXCEPT !.prj.empty_project = FALSE]
                     ELSE w1)

----------------------------------------------------------------------------
(* Argument values: t is the Python type ("str", "list", "false" for None,  *)
(* False and 0, "other" for any other object), v the string(s) it holds.    *)

PyStr(s) == [t |-> "str", v |-> <<s>>]
PyList(l) == [t |-> "list", v |-> l]
PyFalse == [t |-> "false", v |-> <<>>]
PyOther == [t |-> "other", v |-> <<>>]

\* not value
PyNot(x) == x.t = "false" \/ (x.t = "list" /\ x.v = <<>>) \/ (x.t = "str" /\ x.v = << <<>> >>)

\* Project.ext (getter), as an argument value
ExtOf(p) == IF p.ext_filter = None THEN PyFalse ELSE PyList(p.ext_filter.v)

\* The ext setter without its self.reset(): the extensions are applied to
\* the view at hand instead of the reloaded index.
ext_setter_keeps_view(w, d, value) ==
    Then(IF value.t = "str" \/ value.t = "list"
         THEN [w EXCEPT !.prj.ext_filter = Some(value.v)]
         ELSE IF PyNot(value) THEN [w EXCEPT !.prj.ext_filter = None]
         ELSE Raise(w, "InputTypeError"),
         apply)

\* Project.ext (setter)
ext_setter(w, d, value) ==
    Then(Then(IF value.t = "str" \/ value.t = "list"
              THEN [w EXCEPT !.prj.ext_filter = Some(value.v)]
              ELSE IF PyNot(value) THEN [w EXCEPT !.prj.ext_filter = None]
              ELSE Raise(w, "InputTypeError"),
              LAMBDA w1 : reset(w1, d, FALSE)),
         apply)

\* Clearing the list object in place (self.__filters[:] = [None] * 6): every
\* object that holds the list sees it cleared.
NewFilters_in_place(w) == [w EXCEPT !.heap[w.prj.fref] = FreshFilters]

\* self.__filters = [None] * 6 binds a new list object.
NewFilters(w) ==
    LET r == CHOOSE r \in Refs : r \notin w.live
    IN [w EXCEPT !.heap[r] = FreshFilters, !.prj.fref = r]

\* A reset_filters that sets the extensions and reloads, and leaves the
\* filter list as it is.
reset_filters_keeps_slots(w, d, ext) ==
    ext_setter(w, d, IF PyNot(ext) THEN PyList(img_ext) ELSE ext)

\* Project.reset_filters
reset_filters(w, d, ext) ==
    ext_setter(NewFilters(w), d, IF PyNot(ext) THEN PyList(img_ext) ELSE ext)

\* A dataclass setter that also binds a new, empty filter list.
dataclass_setter_clears_filters(w, d, idx) ==
    IF idx \in 0..2
    THEN Then(reset([NewFilters(w) EXCEPT !.prj.dc_idx = idx], d, FALSE), apply)
    ELSE Raise(w, "InputDataclassError")

\* A dataclass setter that stores the index before it tests its range.
dataclass_setter_assigns_first(w, d, idx) ==
    IF idx \in 0..2
    THEN Then(reset([w EXCEPT !.prj.dc_idx = idx], d, FALSE), apply)
    ELSE Raise([w EXCEPT !.prj.dc_idx = idx], "InputDataclassError")

\* Project.dataclass (setter)
dataclass_setter(w, d, idx) ==
    IF idx \in 0..2
    THEN Then(reset([w EXCEPT !.prj.dc_idx = idx], d, FALSE), apply)
    ELSE Raise(w, "InputDataclassError")

\* A reload that rescans and does not call apply() afterwards.
reload_without_apply(w, d) == reset(w, d, TRUE)

\* A reload that takes the index of the active dataclass from its cache file.
reload_from_cache(w, d) == Then(reset(w, d, FALSE), apply)

\* Project.reload
reload(w, d) == Then(reset(w, d, TRUE), apply)

\* check_arguments; the two lists it returns are list(set(...)), kept as sets.
check_arguments(args, residuals, reference) ==
    LET retrieved == IF reference = None THEN {}
                     ELSE {args[i] : i \in {j \in DOMAIN args : args[j] \in Range(reference.v)}}
    IN [retrieved |-> retrieved, residuals |-> residuals \ retrieved]

\* os.listdir(<project>/<dataclass>/<dirs...>): the names directly below it.
ListDir(d, idx, dirs) ==
    LET below == {f \in d : f.dc = idx /\ Len(f.dirs) >= Len(dirs)
                             /\ SubSeq(f.dirs, 1, Len(dirs)) = dirs}
    IN {IF Len(f.dirs) > Len(dirs) THEN f.dirs[Len(dirs) + 1] ELSE f.name : f \in below}

\* The keyword loop of set_filters, in the order the dict yields its keys.
RECURSIVE KeywordLoop(_, _, _, _)
KeywordLoop(w, d, kwargs, keys) ==
    IF keys = <<>> \/ w.err # "none" THEN w
    ELSE LET key == Head(keys)
             val == kwargs[key]
             w1 == IF key = "dataclass" THEN dataclass_setter(w, d, val)
                   ELSE IF key = "ext" THEN ext_setter(w, d, val)
                   ELSE IF key = "file_tag" THEN
                       IF val.t = "str" \/ val.t = "list"
                       THEN [w EXCEPT !.heap[w.prj.fref][5] = Some(val.v)]
                       ELSE Raise(w, "InputTypeError")
                   ELSE IF key = "ignore" THEN
                       IF val.t = "str" \/ val.t = "list"
                       THEN [w EXCEPT !.heap[w.prj.fref][6] = Some(val.v)]
                       ELSE Raise(w, "InputTypeError")
                   ELSE Raise(w, "KeywordError")
         IN KeywordLoop(w1, d, kwargs, Tail(keys))

\* x_filter, residuals = check_arguments(args, residuals, reference) and the
\* extend-or-assign of the slot.  st is [F, residuals, last, pipe]: the filter
\* list, the residuals, the list check_arguments returned last and pipe_filter.
Retrieve(st, args, slot, reference) ==
    Bind(check_arguments(args, st.residuals, reference), LAMBDA c :
    Bind(Sorted(c.retrieved), LAMBDA got :
         [st EXCEPT !.F[slot] = IF Truthy(@) THEN Some(@.v \o got) ELSE Some(got),
                    !.residuals = c.residuals,
                    !.last = Some(got)]))

\* One "if self.<dimension>: ... else: self.__filters[slot] = None" block.
Resolve(st, args, slot, reference) ==
    IF Truthy(reference) THEN Retrieve(st, args, slot, reference)
    ELSE [st EXCEPT !.F[slot] = None, !.last = None]

\* The subject and session blocks of set_filters.
SubjectBlock(p, args, st) ==
    IF Truthy(p.subjects) THEN
        IF ~p.single_session
        THEN Retrieve(Resolve(st, args, 1, p.subjects), args, 2, p.sessions)
        ELSE [Resolve(st, args, 1, p.subjects) EXCEPT !.F[2] = None]
    ELSE [st EXCEPT !.F[1] = None, !.F[2] = None]

\* The dtype block (Data) or the pipeline block (Processing, Results).
Dim1Block(p, args, st) ==
    Bind(Resolve(st, args, 3, IF p.dc_idx = 0 THEN p.dtypes ELSE p.pipelines),
         LAMBDA s : IF p.dc_idx = 0 THEN [s EXCEPT !.F[4] = None]
                    ELSE [s EXCEPT !.pipe = s.last])

\* The step block (Processing) or the report block (Results).
Dim2Block(p, args, st) ==
    IF p.dc_idx = 0 THEN st
    ELSE Resolve(st, args, 4, IF p.dc_idx = 1 THEN p.steps ELSE p.results)

\* A residual block that looks for the residual on disk in every dataclass,
\* as it does in Processing.
ResidualBlock_any_dataclass(w, d, first, st) ==
    LET w3 == [w EXCEPT !.heap[w.prj.fref] = st.F]
        residuals == Sorted(st.residuals)
    IN IF residuals # <<>> THEN
           IF residuals[((first - 1) % Len(residuals)) + 1]
                  \notin ListDir(d, w.prj.dc_idx, <<>>)
           THEN Raise(w3, "NoFilteredOutput")
           ELSE [w3 EXCEPT !.heap[w.prj.fref][3] = Some(residuals)]
       ELSE w3

\* The residual block of set_filters; first picks residuals[0] from the
\* list(set(...)) whose order Python does not fix.
ResidualBlock(w, d, first, st) ==
    LET w3 == [w EXCEPT !.heap[w.prj.fref] = st.F]
        residuals == Sorted(st.residuals)
        processed == ListDir(d, 1, <<st.pipe.v[1]>>)
    IN IF residuals # <<>> THEN
           IF w.prj.dc_idx = 1 THEN
               IF st.pipe = None THEN Raise(w3, "TypeError")
               ELSE IF Len(st.pipe.v) = 1 THEN
                   IF processed = {} THEN Raise(w3, "OSError")
                   ELSE IF processed \cap st.residuals # {}
                   THEN Raise(w3, "NoFilteredOutput")
                   ELSE w3
               ELSE IF residuals[((first - 1) % Len(residuals)) + 1] \notin ListDir(d, 1, <<>>)
                    THEN Raise(w3, "NoFilteredOutput")
                    ELSE [w3 EXCEPT !.heap[w.prj.fref][3] = Some(residuals)]
           ELSE Raise(w3, "NoFilteredOutput")
       ELSE w3

\* The positional part of set_filters.
Positional(w, d, args, first) ==
    ResidualBlock(w, d, first,
        Dim2Block(w.prj, args,
            Dim1Block(w.prj, args,
                SubjectBlock(w.prj, args,
                    [F |-> Filters(w), residuals |-> Range(args),
                     last |-> None, pipe |-> None]))))

\* Project.set_filters
set_filters(w, d, args, kwargs, keys, first) ==
    Then(Then(reset_filters(w, d, ExtOf(w.prj)),
              LAMBDA w1 : KeywordLoop(w1, d, kwargs, keys)),
         LAMBDA w2 : IF args = <<>> THEN w2 ELSE Positional(w2, d, args, first))

\* Project.__call__: prj is the shallow copy, which shares the filter list
\* of the object it was copied from until a new list is bound.
call(w, d, dc_id, args, kwargs, keys, first) ==
    Then(Then(dataclass_setter(w, d, dc_id),
              LAMBDA w1 : set_filters(w1, d, args, kwargs, keys, first)),
         apply)

\* Project.__iter__: the exception raised and the number of rows yielded.
iter(p) ==
    IF p.empty_project THEN [raised |-> "EmptyProject", yielded |-> 0]
    ELSE [raised |-> "none", yielded |-> Len(DfOf(p).rows)]

\* Project.__len__
len(p) == IF p.empty_project THEN 0 ELSE Len(DfOf(p).rows)

\* The loop of Project.__init__ over the three dataclasses; dc_idx collects
\* the ones that are not empty.
RECURSIVE ConstructLoop(_, _, _, _)
ConstructLoop(w, d, i, dc_idx) ==
    IF i > 2 THEN [w |-> w, dc_idx |-> dc_idx]
    ELSE Bind(Then(scan_prj([w EXCEPT !.prj.dc_idx = i], d), apply), LAMBDA w2 :
              IF w2.err # "none" THEN [w |-> w2, dc_idx |-> dc_idx]
              ELSE ConstructLoop(w2, d, i + 1,
                                 IF ~w2.prj.empty_project THEN dc_idx \cup {i}
                                 ELSE dc_idx))

\* The first of the collected dataclasses instead of the last.
max_as_first(dc_idx) == CHOOSE i \in dc_idx : \A j \in dc_idx : i <= j

\* max(dc_idx)
max(dc_idx) == CHOOSE i \in dc_idx : \A j \in dc_idx : j <= i

\* A constructor that goes back to Data when it has found every dataclass
\* empty.
init_empty_back_to_data(d, cache0) ==
    LET p0 == [dc_idx |-> 0, df |-> EmptyDataFrame, single_session |-> FALSE,
               empty_project |-> FALSE, fref |-> 1, ext_filter |-> Some(img_ext),
               subjects |-> None, sessions |-> None, dtypes |-> None,
               pipelines |-> None, steps |-> None, results |-> None]
        w0 == [prj |-> p0, heap |-> [r \in Refs |-> FreshFilters], cache |-> cache0,
               live |-> {}, err |-> "none"]
    IN Bind(ConstructLoop(w0, d, 0, {}), LAMBDA l :
            IF l.w.err # "none" THEN l.w
            ELSE IF l.dc_idx = {} THEN [l.w EXCEPT !.prj.dc_idx = 0]
            ELSE Then(scan_prj([l.w EXCEPT !.prj.dc_idx = max(l.dc_idx)], d), apply))

\* Project.__init__, after mk_main_folder has made the three folders.
init(d, cache0) ==
    LET p0 == [dc_idx |-> 0, df |-> EmptyDataFrame, single_session |-> FALSE,
               empty_project |-> FALSE, fref |-> 1, ext_filter |-> Some(img_ext),
               subjects |-> None, sessions |-> None, dtypes |-> None,
               pipelines |-> None, steps |-> None, results |-> None]
        w0 == [prj |-> p0, heap |-> [r \in Refs |-> FreshFilters], cache |-> cache0,
               live |-> {}, err |-> "none"]
    IN Bind(ConstructLoop(w0, d, 0, {}), LAMBDA l :
            IF l.w.err # "none" \/ l.dc_idx = {} THEN l.w
            ELSE Then(scan_prj([l.w EXCEPT !.prj.dc_idx = max(l.dc_idx)], d), apply))

----------------------------------------------------------------------------
(* The project trees and the arguments the operations are called with       *)

S1 == <<"s", "1">>
S2 == <<"s", "2">>
E1 == <<"e", "1">>
An == <<"a", "n">>
P1 == <<"p", "1">>
P2 == <<"p", "2">>
P3 == <<"p", "3">>
T1 == <<"t", "1">>
T2 == <<"t", "2">>
R1 == <<"r", "1">>
Xx == <<"x">>

RNii == <<"r", ".", "n", "i", "i">>
RbNii == <<"r", "b", ".", "n", "i", "i">>
MNii == <<"m", ".", "n", "i", "i">>
AJson == <<"a", ".", "j", "s", "o", "n">>

File(dc, dirs, name) == [dc |-> dc, dirs |-> dirs, name |-> name]

\* Multi-session raw data, single-session processing, a report in Results.
DiskMixed ==
    { File(0, <<S1, E1, An>>, RNii), File(0, <<S2, E1, An>>, RbNii),
      File(1, <<P1, T1, S1>>, RNii),
      File(2, <<P1, R1, S1>>, AJson) }

\* Single-session raw data only.
DiskRaw ==
    { File(0, <<S1, An>>, RNii), File(0, <<S1, An>>, MNii), File(0, <<S2, An>>, RNii) }

\* The three folders hold nothing.
DiskEmpty == {}

\* The project trees a Project object is constructed on.
Disks == {DiskMixed, DiskRaw, DiskEmpty}

\* Files written under the project path while a Project object exists: the
\* output of a pipeline step, and the parameter file of a pipeline.
Written == { File(1, <<P1>>, AJson), File(0, <<S2, An>>, MNii) }

NoCache == [i \in 0..2 |-> Missing]

NoKwargs == [dataclass |-> 0, ext |-> PyFalse, file_tag |-> PyFalse, ignore |-> PyFalse,
             bad |-> PyFalse]

FilterCall(args, kwargs, keys) == [args |-> args, kwargs |-> kwargs, keys |-> keys]

\* The arguments set_filters is called with.
FilterCalls ==
    { FilterCall(<<>>, NoKwargs, <<>>),
      FilterCall(<<S1, E1>>, NoKwargs, <<>>),
      FilterCall(<<Xx>>, NoKwargs, <<>>),
      FilterCall(<<>>, [NoKwargs EXCEPT !.file_tag = PyStr(<<"m">>)], <<"file_tag">>),
      FilterCall(<<>>, [NoKwargs EXCEPT !.dataclass = 1], <<"dataclass">>),
      FilterCall(<<>>, NoKwargs, <<"bad">>) }

\* The arguments Project.__call__ is called with, after the dataclass.
ScopedCalls ==
    { FilterCall(<<>>, NoKwargs, <<>>),
      FilterCall(<<S1>>, NoKwargs, <<>>),
      FilterCall(<<Xx>>, NoKwargs, <<>>) }

ExtValues == {PyFalse, PyOther}

\* Values assigned to a slot of the list that Project.filters hands out.
FilterAssignments ==
    { <<1, Some(<<S1>>)>>, <<1, None>> }

MaxDiskChanges == 2

----------------------------------------------------------------------------
(* The state machine                                                        *)

\* No other process is at work on the cache files.
NoRace == [path |-> 0, inodes |-> <<>>, procs |-> <<>>]

Obj(o) == IF o = "main" THEN main ELSE copy[1]

Exists(o) == o = "main" \/ copy # <<>>

Live(o) == IF o = "main" THEN {copy[i].fref : i \in DOMAIN copy} ELSE {main.fref}

World(o) == [prj |-> Obj(o), heap |-> heap, cache |-> cache, live |-> Live(o),
             err |-> "none"]

\* List objects no Project refers to are garbage.
Collect(h, used) == [r \in Refs |-> IF r \in used THEN h[r] ELSE FreshFilters]

Commit(o, w, op) ==
    /\ main' = IF o = "main" THEN w.prj ELSE main
    /\ copy' = IF o = "copy" THEN <<w.prj>> ELSE copy
    /\ heap' = Collect(w.heap, {main'.fref} \cup {copy'[i].fref : i \in DOMAIN copy'})
    /\ cache' = w.cache
    /\ lastOp' = [op |-> op, on |-> o]
    /\ lastErr' = w.err
    /\ UNCHANGED <<disk, nchanges, io>>

Init ==
    \E d \in Disks :
        \E w \in {init(d, NoCache)} :
           /\ w.err = "none"
           /\ disk = d
           /\ cache = w.cache
           /\ main = w.prj
           /\ copy = <<>>
           /\ heap = Collect(w.heap, {w.prj.fref})
           /\ lastOp = [op |-> "__init__", on |-> "main"]
           /\ lastErr = "none"
           /\ nchanges = 0
           /\ io = NoRace

Apply(o) == Exists(o) /\ Commit(o, apply(World(o)), "apply")

SetDataclass(o, idx) ==
    Exists(o) /\ Commit(o, dataclass_setter(World(o), disk, idx), "dataclass")

SetExt(o, value) == Exists(o) /\ Commit(o, ext_setter(World(o), disk, value), "ext")

ResetFilters(o, ext) ==
    Exists(o) /\ Commit(o, reset_filters(World(o), disk, ext), "reset_filters")

\* The positions residuals[0] can take in the unordered residual list.
Firsts(c) == 1..(IF Len(c.args) > 1 THEN Len(c.args) ELSE 1)

SetFilters(o, c, first) ==
    /\ Exists(o)
    /\ first \in Firsts(c)
    /\ Commit(o, set_filters(World(o), disk, c.args, c.kwargs, c.keys, first),
              "set_filters")

Reload(o) == Exists(o) /\ Commit(o, reload(World(o), disk), "reload")

Reset(o, rescan) ==
    Exists(o) /\ Commit(o, reset(World(o), disk, rescan),
                        IF rescan THEN "rescan" ELSE "reset")

\* prj.filters[slot - 1] = value
AssignFilter(o, slot, value) ==
    Exists(o) /\ Commit(o, [World(o) EXCEPT !.heap[Obj(o).fref][slot] = value],
                        "filters")

\* copy = main(dc_id, *args, **kwargs).  The new object takes the place of the
\* one an earlier call returned; its filter list is numbered 2 when it is its own.
Call(dc_id, c, first) ==
    \E w \in {call([World("main") EXCEPT !.live = Live("main") \cup {main.fref}],
                     disk, dc_id, c.args, c.kwargs, c.keys, first)} :
        LET ok == w.err = "none"
            own == w.prj.fref # main.fref
        IN /\ main' = main
           /\ copy' = IF ~ok THEN copy
                      ELSE IF own THEN <<[w.prj EXCEPT !.fref = 2]>> ELSE <<w.prj>>
           /\ heap' = IF ok /\ own
                      THEN [r \in Refs |-> IF r = main.fref THEN w.heap[r]
                                           ELSE IF r = 2 THEN w.heap[w.prj.fref]
                                           ELSE FreshFilters]
                      ELSE Collect(w.heap, {main.fref}
                                             \cup {copy[i].fref : i \in DOMAIN copy})
           /\ cache' = w.cache
           /\ lastOp' = [op |-> "__call__", on |-> "main"]
           /\ lastErr' = w.err
           /\ UNCHANGED <<disk, nchanges, io>>

\* A pipeline step writes a file under the project path.
DiskWrite(f) ==
    /\ nchanges < MaxDiskChanges
    /\ f \notin disk
    /\ disk' = disk \cup {f}
    /\ nchanges' = nchanges + 1
    /\ lastOp' = [op |-> "write", on |-> "disk"]
    /\ lastErr' = "none"
    /\ UNCHANGED <<cache, main, copy, heap, io>>

\* The files of one dataclass folder are removed.
DiskRemove(idx) ==
    /\ nchanges < MaxDiskChanges
    /\ \E f \in disk : f.dc = idx
    /\ disk' = {f \in disk : f.dc # idx}
    /\ nchanges' = nchanges + 1
    /\ lastOp' = [op |-> "remove", on |-> "disk"]
    /\ lastErr' = "none"
    /\ UNCHANGED <<cache, main, copy, heap, io>>

\* Another Project object on the same project path runs scan_prj for a
\* dataclass: what this object sees of it is the cache file it leaves.
OtherScan(idx) ==
    LET p0 == [main EXCEPT !.dc_idx = idx]
        w == scan_prj([prj |-> p0, heap |-> heap, cache |-> cache, live |-> {},
                       err |-> "none"], disk)
    IN /\ cache' = w.cache
       /\ cache' # cache
       /\ lastOp' = [op |-> "scan_prj", on |-> "other"]
       /\ lastErr' = "none"
       /\ UNCHANGED <<disk, main, copy, heap, nchanges, io>>

Next ==
    \/ Apply("main")
    \/ \E idx \in 0..3 : SetDataclass("main", idx)
    \/ \E value \in ExtValues : SetExt("main", value)
    \/ ResetFilters("main", PyFalse)
    \/ \E c \in FilterCalls, first \in 1..2 : SetFilters("main", c, first)
    \/ Reload("main")
    \/ \E rescan \in BOOLEAN : Reset("main", rescan)
    \/ \E a \in FilterAssignments : AssignFilter("main", a[1], a[2])

Spec == Init /\ [][Next]_vars

----------------------------------------------------------------------------
(* One object on a project tree that pipelines and other objects change     *)

NextDisk ==
    \/ Apply("main")
    \/ \E idx \in 0..2 : SetDataclass("main", idx)
    \/ Reload("main")
    \/ \E rescan \in BOOLEAN : Reset("main", rescan)
    \/ \E a \in FilterAssignments : AssignFilter("main", a[1], a[2])
    \/ \E f \in Written : DiskWrite(f)
    \/ \E idx \in 0..1 : DiskRemove(idx)
    \/ \E idx \in 0..2 : OtherScan(idx)

SpecDisk == Init /\ [][NextDisk]_vars

----------------------------------------------------------------------------
(* The original object and a scoped copy of it, on an unchanging tree        *)

\* The arguments the original object's set_filters is called with.
MainCalls ==
    { FilterCall(<<S1, E1>>, NoKwargs, <<>>),
      FilterCall(<<>>, [NoKwargs EXCEPT !.file_tag = PyStr(<<"m">>)], <<"file_tag">>) }

NextScoped ==
    \/ \E c \in MainCalls : SetFilters("main", c, 1)
    \/ Apply("main")
    \/ \E dc_id \in 0..1, c \in ScopedCalls : Call(dc_id, c, 1)
    \/ \E c \in ScopedCalls : SetFilters("copy", c, 1)
    \/ ResetFilters("copy", PyFalse)
    \/ SetExt("copy", PyFalse)
    \/ Apply("copy")
    \/ \E a \in FilterAssignments : AssignFilter("copy", a[1], a[2])

SpecScoped == Init /\ [][NextScoped]_vars

----------------------------------------------------------------------------
(* Construction on every tree built from a small set of files               *)

TreeFiles ==
    { File(0, <<S1, E1, An>>, RNii), File(0, <<S1, An>>, MNii), File(0, <<>>, AJson),
      File(1, <<P1, T1, S1>>, RNii), File(1, <<P1, T1, S1, E1>>, MNii),
      File(1, <<P1>>, AJson),
      File(2, <<P1, R1, S1>>, AJson), File(2, <<P1, R1, S1, E1>>, RNii) }

InitTrees ==
    \E d \in SUBSET TreeFiles :
        \E w \in {init(d, NoCache)} :
           /\ w.err = "none"
           /\ disk = d
           /\ cache = w.cache
           /\ main = w.prj
           /\ copy = <<>>
           /\ heap = Collect(w.heap, {w.prj.fref})
           /\ lastOp = [op |-> "__init__", on |-> "main"]
           /\ lastErr = "none"
           /\ nchanges = 0
           /\ io = NoRace

NextTrees ==
    \/ Apply("main")
    \/ \E rescan \in BOOLEAN : Reset("main", rescan)

SpecTrees == InitTrees /\ [][NextTrees]_vars

----------------------------------------------------------------------------
(* The filter stages on every filter state built from a few values          *)

SlotValues ==
    << {None, Some(<<>>), Some(<<S1>>)},
       {None, Some(<<E1>>)},
       {None, Some(<<An>>), Some(<<P1>>)},
       {None, Some(<<T1>>)},
       {None, Some(<<>>), Some(<< <<"m">> >>)},
       {None, Some(<<>>), Some(<< <<"r", "b">> >>)} >>

FilterStates ==
    { <<subj, sess, dim1, dim2, tags, ignore>> :
        subj \in SlotValues[1], sess \in SlotValues[2], dim1 \in SlotValues[3],
        dim2 \in SlotValues[4], tags \in SlotValues[5], ignore \in SlotValues[6] }

\* prj = Project(path); prj.filters[:] = F
InitFilter ==
    \E d \in Disks, F \in FilterStates :
        \E w \in {init(d, NoCache)} :
           /\ w.err = "none"
           /\ disk = d
           /\ cache = w.cache
           /\ main = w.prj
           /\ copy = <<>>
           /\ heap = [Collect(w.heap, {}) EXCEPT ![w.prj.fref] = F]
           /\ lastOp = [op |-> "filters", on |-> "main"]
           /\ lastErr = "none"
           /\ nchanges = 0
           /\ io = NoRace

NextFilter ==
    \/ Apply("main")
    \/ \E idx \in 0..2 : SetDataclass("main", idx)

SpecFilter == InitFilter /\ [][NextFilter]_vars


----------------------------------------------------------------------------
(* One object on a tree that pipelines write to and whose cache files are   *)
(* lost                                                                      *)

\* A .class_dataframe file is deleted or truncated.
CacheLost(idx) ==
    /\ nchanges < MaxDiskChanges
    /\ cache[idx] # Missing
    /\ cache' = [cache EXCEPT ![idx] = Missing]
    /\ nchanges' = nchanges + 1
    /\ lastOp' = [op |-> "lost", on |-> "cache"]
    /\ lastErr' = "none"
    /\ UNCHANGED <<disk, main, copy, heap, io>>

\* The arguments set_filters is called with while the tree changes.
CacheCalls ==
    { FilterCall(<<S1>>, NoKwargs, <<>>),
      FilterCall(<<>>, [NoKwargs EXCEPT !.file_tag = PyStr(<<"m">>)], <<"file_tag">>) }

NextCache ==
    \/ Apply("main")
    \/ \E idx \in 0..2 : SetDataclass("main", idx)
    \/ \E c \in CacheCalls : SetFilters("main", c, 1)
    \/ Reload("main")
    \/ \E rescan \in BOOLEAN : Reset("main", rescan)
    \/ \E f \in Written : DiskWrite(f)
    \/ \E idx \in 0..1 : CacheLost(idx)

SpecCache == Init /\ [][NextCache]_vars

----------------------------------------------------------------------------
(* Positional arguments of set_filters, on trees that pipelines write to    *)

\* Raw data whose first subject has a session of the subject's name and whose
\* second subject has no image yet, two pipelines, a report in Results.
DiskArgs ==
    { File(0, <<S1, S1, An>>, RNii), File(0, <<S2, E1, An>>, AJson),
      File(1, <<P1, T1, S1>>, RNii), File(1, <<P2, T1, S1>>, RNii),
      File(2, <<P1, R1, S1>>, AJson) }

\* The output of a new step of pipeline p1, and of a new pipeline.
StepOutputs == { File(1, <<P1, T2, S1>>, RNii), File(1, <<P3, T1, S1>>, RNii) }

\* The positional arguments set_filters is called with.
ArgCalls ==
    { FilterCall(args, NoKwargs, <<>>) :
        args \in { <<S1>>, <<S2>>, <<Xx>>, <<P1>>, <<P3>>, <<P1, T2>>, <<P1, Xx>>,
                   <<P1, P2, Xx>> } }

InitArgs ==
    \E d \in {DiskArgs, DiskRaw} :
        \E w \in {init(d, NoCache)} :
           /\ w.err = "none"
           /\ disk = d
           /\ cache = w.cache
           /\ main = w.prj
           /\ copy = <<>>
           /\ heap = Collect(w.heap, {w.prj.fref})
           /\ lastOp = [op |-> "__init__", on |-> "main"]
           /\ lastErr = "none"
           /\ nchanges = 0
           /\ io = NoRace

NextArgs ==
    \/ \E idx \in 0..2 : SetDataclass("main", idx)
    \/ \E c \in ArgCalls, first \in 1..3 : SetFilters("main", c, first)
    \/ Apply("main")
    \/ Reload("main")
    \/ \E f \in StepOutputs : DiskWrite(f)

SpecArgs == InitArgs /\ [][NextArgs]_vars

----------------------------------------------------------------------------
(* Properties                                                               *)

\* What the filter stages give on the index of the object's active dataclass,
\* the table its cache file holds, with the object's filters and extensions.
FilteredIndex(p) ==
    applying_filters(p.dc_idx, heap[p.fref], p.ext_filter, cache[p.dc_idx][1])

AfterSetFilters == lastOp.op = "set_filters" /\ lastOp.on = "main" /\ lastErr = "none"

\* C1 as stated: when set_filters has returned without raising, the view is
\* the index of the active dataclass passed through the stages of the slots
\* that were just set.
C1_AsStated ==
    AfterSetFilters =>
        FilteredIndex(main) = [df |-> main.df, err |-> "none"]

\* C1: set_filters stores the slots without applying them; when it has
\* returned without raising and apply() is then called and returns without
\* raising, the view is the index of the active dataclass passed through the
\* stages of the slots that were just set.
C1_SetFiltersThenApply ==
    AfterSetFilters =>
        Bind(apply(World("main")), LAMBDA w :
             w.err = "none" =>
                 FilteredIndex(main) = [df |-> w.prj.df, err |-> "none"])

\* set_filters has stored a filter that the view does not show until apply().
C1_Witness ==
    /\ AfterSetFilters
    /\ heap[main.fref] # FreshFilters
    /\ apply(World("main")).err = "none"
    /\ Len(apply(World("main")).prj.df.rows) < Len(main.df.rows)


\* What a caller observes of a Project object.
Observed(p) ==
    [dataclass |-> p.dc_idx, filters |-> heap[p.fref], ext |-> p.ext_filter,
     df |-> DfOf(p), len |-> len(p)]

\* C2: making a scoped view with prj(dc_id, *args, **kwargs), and every
\* set_filters, reset_filters, ext assignment, filter assignment and apply()
\* on that view, leaves the original object's active dataclass, six filter
\* slots, extension list, view and length as they were.
C2_ScopedViewLeavesOriginal ==
    [][(lastOp'.op = "__call__" \/ lastOp'.on = "copy")
          => Observed(main)' = Observed(main)]_vars

\* The scoped view has been changed and now differs from the original, whose
\* filters are set, in dataclass and in filters.
C2_Witness ==
    /\ copy # <<>>
    /\ lastOp.on = "copy"
    /\ lastErr = "none"
    /\ heap[main.fref] # FreshFilters
    /\ heap[copy[1].fref] # heap[main.fref]
    /\ copy[1].dc_idx # main.dc_idx
    /\ DfOf(copy[1]) # DfOf(main)


AfterInit == lastOp.op = "__init__"

\* The dataclasses whose index, as the constructor's scan left it in the
\* cache file, has at least one record.
NonEmptyClasses == {c \in 0..2 : Len(cache[c][1].rows) > 0}

\* The dataclasses whose index has a record that passes the default
\* extension filter (img_ext).
ImageClasses ==
    {c \in 0..2 : \E i \in DOMAIN cache[c][1].rows :
                      StrContains(cache[c][1].rows[i]["Filename"], img_ext, TRUE)}

AddValue(F, slot, v) ==
    [F EXCEPT ![slot] = IF @ = None THEN Some(<<v>>) ELSE Some(@.v \o <<v>>)]

\* The values that are added to each slot.
AddedValues ==
    << {S1, S2}, {E1}, {An, P1}, {T1, R1}, {<<"m">>, <<"r">>},
       {<<"m">>, <<"r", "b">>} >>

\* The stages with the filter list F on the index of the active dataclass.
StagesOnIndex(F) ==
    applying_filters(main.dc_idx, F, main.ext_filter, cache[main.dc_idx][1])

\* Adding v to the slot of the object's filter list does not make the view
\* longer, when the stages complete with both lists.
NoLonger(slot, v) ==
    LET before == StagesOnIndex(heap[main.fref])
        after == StagesOnIndex(AddValue(heap[main.fref], slot, v))
    IN (before.err = "none" /\ after.err = "none")
           => Len(after.df.rows) <= Len(before.df.rows)

NarrowsOnly(F, slot) ==
    IF slot = 6 THEN F[6] = None \/ F[6].v # <<>> ELSE ~Truthy(F[slot])

ApplyAgain(w) == apply([w EXCEPT !.err = "none"])

\* C5: apply() called twice in succession gives what one call gives: the same
\* view, length, subjects, sessions, dtypes, pipelines, steps, results and
\* empty-project flag, and the same exception if it raises.
C5_ApplyIdempotent ==
    ApplyAgain(apply(World("main"))) = apply(World("main"))

\* apply() has narrowed the view with a filter that is set and a second call
\* would run the stages on the narrowed view.
C5_Witness ==
    /\ lastOp.op = "apply"
    /\ lastErr = "none"
    /\ heap[main.fref] # FreshFilters
    /\ Len(main.df.rows) > 0
    /\ Len(main.df.rows) < Len(cache[main.dc_idx][1].rows)
    /\ main.subjects # None


\* C6: for each dataclass, when scan_prj has found at least one record and
\* saved the cache file, reset(rescan=False) loads that file and gives the
\* records and the single_session flag that the scan gave.
C6_CacheRoundTrip ==
    \A c \in 0..2 :
        Bind(scan_prj([World("main") EXCEPT !.prj.dc_idx = c], disk), LAMBDA w1 :
             (w1.err = "none" /\ Len(w1.prj.df.rows) > 0) =>
                 /\ w1.cache[c] = <<w1.prj.df>>
                 /\ Bind(reset(w1, disk, FALSE), LAMBDA w2 :
                         /\ w2.err = "none"
                         /\ w2.prj.df = w1.prj.df
                         /\ w2.prj.single_session = w1.prj.single_session))

\* A rescan has just scanned and saved a multi-session index, which a load
\* gives back.
C6_Witness ==
    /\ lastOp.op = "rescan"
    /\ lastErr = "none"
    /\ Len(main.df.rows) > 0
    /\ ~main.single_session
    /\ cache[main.dc_idx] = <<main.df>>
    /\ reset(World("main"), disk, FALSE).prj.df = main.df
    /\ ~reset(World("main"), disk, FALSE).prj.single_session


\* C7 as stated: apply() takes no record from the index of the active
\* dataclass, so when apply() has returned without raising, whatever filters
\* were applied before, the view is what the stages of the present filters
\* give on the index as it was scanned or loaded.
C7_AsStated ==
    (lastOp.op = "apply" /\ lastOp.on = "main" /\ lastErr = "none") =>
        FilteredIndex(main) = [df |-> main.df, err |-> "none"]


\* C8 as stated: assigning 0, 1 or 2 to prj.dataclass leaves the six filter
\* slots as they were and the view is the index of the new dataclass passed
\* through the stages of those filters.
C8_AsStated ==
    \A idx \in 0..2 :
        Bind(dataclass_setter(World("main"), disk, idx), LAMBDA w :
             /\ Filters(w) = heap[main.fref]
             /\ w.cache[idx] # Missing
             /\ applying_filters(idx, Filters(w), w.prj.ext_filter, w.cache[idx][1])
                    = [df |-> w.prj.df, err |-> "none"])


\* set_filters(dataclass=idx)
DataclassKeyword(w, idx) ==
    set_filters(w, disk, <<>>, [NoKwargs EXCEPT !.dataclass = idx], <<"dataclass">>, 1)

\* C9 as stated: when the active dataclass has been changed, by the dataclass
\* setter or by the dataclass keyword of set_filters, the six filter slots
\* are unset.
C9_AsStated ==
    \A idx \in (0..2) \ {main.dc_idx} :
        /\ Bind(dataclass_setter(World("main"), disk, idx), LAMBDA w :
                w.err = "none" => Filters(w) = FreshFilters)
        /\ Bind(DataclassKeyword(World("main"), idx), LAMBDA w :
                w.err = "none" => Filters(w) = FreshFilters)

\* C9: the dataclass setter leaves the six filter slots as they were; the
\* slots are unset by reset_filters and by set_filters, which calls it first,
\* so after set_filters(dataclass=idx) all six are unset.
C9_SetterKeepsFilters ==
    /\ \A idx \in 0..3 :
           Filters(dataclass_setter(World("main"), disk, idx)) = heap[main.fref]
    /\ \A idx \in 0..2 :
           Filters(DataclassKeyword(World("main"), idx)) = FreshFilters
    /\ Filters(reset_filters(World("main"), disk, PyFalse)) = FreshFilters

\* The dataclass setter has run and the subject and file_tag slots are set.
C9_Witness ==
    /\ lastOp.op = "dataclass"
    /\ lastErr = "none"
    /\ Truthy(heap[main.fref][1])
    /\ heap[main.fref][5] # None
    /\ Len(main.df.rows) < Len(cache[main.dc_idx][1].rows)


\* C10 as stated: when the view has no record, iterating raises EmptyProject
\* and len() is 0; when it has records, iterating raises nothing and yields
\* len() of them.
C10_AsStated ==
    /\ Len(DfOf(main).rows) = 0 =>
           iter(main).raised = "EmptyProject" /\ len(main) = 0
    /\ Len(DfOf(main).rows) > 0 =>
           iter(main).raised = "none" /\ iter(main).yielded = len(main)


\* reset() has just returned on the object, without raising.
AfterReset == lastOp.op \in {"reset", "rescan"} /\ lastOp.on = "main" /\ lastErr = "none"

\* C11 as stated: when reset(rescan=False) or reset(rescan=True) has returned,
\* the empty-project flag is true if and only if the index holds no record,
\* whatever the flag was before the call.
C11_AsStated ==
    AfterReset => (main.empty_project <=> Len(main.df.rows) = 0)


\* C12 as stated: when reset(rescan=False) loads the cache file of the active
\* dataclass, whichever dataclass is made active before the call, and whatever
\* single_session and the empty-project flag were, single_session afterwards
\* is true iff the loaded table has 4 columns (Data) or 5 columns (Processing,
\* Results).
C12_AsStated ==
    \A idx \in 0..2 :
        cache[idx] # Missing =>
            Bind(reset([World("main") EXCEPT !.prj.dc_idx = idx], disk, FALSE),
                 LAMBDA w :
                     /\ w.err = "none"
                     /\ w.prj.df = cache[idx][1]
                     /\ w.prj.single_session
                            = (Len(cache[idx][1].cols) = CachedSingleSessionColumns(idx)))



\* C13: reset(rescan=False) with the cache file of the active dataclass
\* present loads it, raises nothing, writes no cache file and leaves the index
\* equal to the cached table, also when the tree has changed since; with the
\* cache file missing or unreadable it ends as scan_prj on the tree ends: the
\* index is the scanned table, the cache file is written, and the only
\* exception is one the scan itself raises.
C13_LoadOrScan ==
    Bind(reset(World("main"), disk, FALSE), LAMBDA w :
         IF cache[main.dc_idx] # Missing
         THEN /\ w.err = "none"
              /\ w.cache = cache
              /\ w.prj.df = cache[main.dc_idx][1]
         ELSE Bind(scan_prj(World("main"), disk), LAMBDA s :
                   /\ w.err = s.err
                   /\ w.prj.df = s.prj.df
                   /\ w.cache = s.cache
                   /\ w.err = "none" => w.cache[main.dc_idx] = <<w.prj.df>>))

\* reset(rescan=False) has loaded a cache file that a scan of the changed tree
\* would not give, while the cache file of another dataclass is lost.
C13_Witness ==
    /\ lastOp.op = "reset"
    /\ lastErr = "none"
    /\ cache[main.dc_idx] # Missing
    /\ main.df = cache[main.dc_idx][1]
    /\ scan_prj(World("main"), disk).prj.df # main.df
    /\ \E idx \in 0..2 : cache[idx] = Missing



\* What a scan of the dataclass c finds on the tree as it is now: the table
\* scan_prj leaves in the object and in the cache file.
FreshIndex(c) == scan_prj([World("main") EXCEPT !.prj.dc_idx = c], disk).prj.df

\* C14: reload() scans Processing first, then Results, then the active
\* dataclass, whatever the cache files hold; when it returns without raising,
\* the active dataclass and the six filter slots are what they were, the cache
\* files of the scanned dataclasses hold the scanned tables, and the view is
\* the scanned index of the active dataclass passed through the filters.  When
\* the scan of Processing raises, reload() raises the same exception, with
\* Processing left active and the cache file of Results untouched.
C14_ReloadRescans ==
    Bind(reload(World("main"), disk), LAMBDA w :
         /\ w.err = "none" =>
                /\ w.prj.dc_idx = main.dc_idx
                /\ Filters(w) = heap[main.fref]
                /\ \A c \in {1, 2, main.dc_idx} : w.cache[c] = <<FreshIndex(c)>>
                /\ applying_filters(main.dc_idx, heap[main.fref], main.ext_filter,
                                    FreshIndex(main.dc_idx))
                       = [df |-> w.prj.df, err |-> "none"]
         /\ Bind(scan_prj([World("main") EXCEPT !.prj.dc_idx = 1], disk), LAMBDA s :
                 s.err # "none" =>
                     /\ w.err = s.err
                     /\ w.prj.dc_idx = 1
                     /\ w.cache[2] = cache[2]))

\* The subject filter is set, the cache file of the active dataclass is lost
\* or no longer what a scan gives, and reload() returns with a view that is
\* the scanned index narrowed by the filter.
C14_Witness ==
    /\ Truthy(heap[main.fref][1])
    /\ cache[main.dc_idx] # <<FreshIndex(main.dc_idx)>>
    /\ reload(World("main"), disk).err = "none"
    /\ reload(World("main"), disk).cache[main.dc_idx] = <<FreshIndex(main.dc_idx)>>
    /\ Len(reload(World("main"), disk).prj.df.rows) > 0
    /\ Len(reload(World("main"), disk).prj.df.rows) < Len(FreshIndex(main.dc_idx).rows)



\* The table a scan of the dataclass c gives on the tree as it is now, by an
\* object that has no filter and no extension list set.
ScanOf(c) ==
    scan_prj([World("main") EXCEPT !.prj.dc_idx = c, !.prj.ext_filter = None,
                                   !.heap = [r \in Refs |-> FreshFilters]],
             disk).prj.df

\* C15: every operation of the object (apply, set_filters, the dataclass
\* setter, reset, reload) leaves each cache file as it was or replaces it by
\* the unfiltered table a scan of that dataclass gives; a rescan or reload
\* that returns replaces the files of Processing, Results and the active
\* dataclass, and a reset, dataclass switch or set_filters that returns after
\* finding the active dataclass's file missing writes that file.  So a cache
\* file always holds the table of the last scan that completed, whatever
\* filters are in force.
C15_CacheIsLastScan ==
    [][lastOp'.on = "main" =>
         /\ \A c \in 0..2 : cache'[c] = cache[c] \/ cache'[c] = <<ScanOf(c)>>
         /\ (lastErr' = "none" /\ lastOp'.op \in {"rescan", "reload"}) =>
                \A c \in {1, 2, main'.dc_idx} : cache'[c] = <<ScanOf(c)>>
         /\ (/\ lastErr' = "none"
             /\ lastOp'.op \in {"reset", "dataclass", "set_filters"}
             /\ cache[main'.dc_idx] = Missing) =>
                cache'[main'.dc_idx] = <<ScanOf(main'.dc_idx)>>]_vars

\* reload() has scanned with the subject filter in force: the view is narrower
\* than the table in the cache file, which is the unfiltered scan.
C15_Witness ==
    /\ lastOp.op = "reload"
    /\ lastErr = "none"
    /\ Truthy(heap[main.fref][1])
    /\ Len(main.df.rows) > 0
    /\ Len(main.df.rows) < Len(cache[main.dc_idx][1].rows)
    /\ cache[main.dc_idx] = <<ScanOf(main.dc_idx)>>



\* set_filters has just returned on the object, raising or not.
SetFiltersRan == lastOp.op = "set_filters" /\ lastOp.on = "main"

\* The subject, session, dim1 and dim2 slots that hold the value v.
SlotsHolding(F, v) == {slot \in 1..4 : F[slot].some /\ v \in Range(F[slot].v)}

\* C16 as stated: when set_filters has resolved its positional arguments, no
\* value is in more than one of the subject, session, dim1 and dim2 slots, also
\* when the value is a known value of two dimensions.
C16_AsStated ==
    SetFiltersRan =>
        \A v \in {S1, S2, P1, P2, P3, T2, Xx} :
            Cardinality(SlotsHolding(heap[main.fref], v)) <= 1



\* set_filters(*args) on the object, with residuals[0] the first residual.
SetPositional(args) == set_filters(World("main"), disk, args, NoKwargs, <<>>, 1)

\* The values of the column col in the index of the active dataclass.
Indexed(col) ==
    IF HasCol(cache[main.dc_idx][1], col)
    THEN {cache[main.dc_idx][1].rows[i][col] : i \in DOMAIN cache[main.dc_idx][1].rows}
    ELSE {}

\* C17 as stated: with Processing active, pipeline p1 in the index, and t2 a
\* directory under Processing/p1 that is not in the index yet,
\* set_filters('p1', 't2') raises nothing and stores ['t2'] in the dim2 slot.
C17_AsStated ==
    (/\ main.dc_idx = 1
     /\ cache[1] # Missing
     /\ P1 \in Indexed("Pipeline")
     /\ T2 \notin Indexed("Step")
     /\ T2 \in ListDir(disk, 1, <<P1>>)) =>
        Bind(SetPositional(<<P1, T2>>), LAMBDA w :
             w.err = "none" /\ Filters(w)[4] = Some(<<T2>>))


\* C18 as stated: with Processing active, set_filters with the positional
\* argument 'x', which names no directory on disk, raises NoFilteredOutput:
\* alone, next to one pipeline and next to two pipelines, known or not.
C18_AsStated ==
    main.dc_idx = 1 =>
        \A args \in {<<Xx>>, <<P1, Xx>>, <<P1, P2, Xx>>} :
            SetPositional(args).err = "NoFilteredOutput"



\* The values set_filters resolves positional arguments against: the distinct
\* values of the view of the object p.
Known(p) ==
    Range(p.subjects.v) \cup Range(p.sessions.v) \cup Range(p.dtypes.v)
        \cup Range(p.pipelines.v) \cup Range(p.steps.v) \cup Range(p.results.v)

\* Positional arguments of which at least one can be left unresolved.
ResidualArgs == { <<Xx>>, <<S2>>, <<P1>>, <<S1, Xx>>, <<S1, S2>> }

\* C19: with Data or Results active, when the view that set_filters reloads
\* (reset_filters) does not know one of the positional arguments, set_filters
\* raises NoFilteredOutput, whether or not a directory of that name exists
\* under the dataclass folder.
C19_ResidualRaises ==
    main.dc_idx \in {0, 2} =>
        \A args \in ResidualArgs :
            Bind(reset_filters(World("main"), disk, ExtOf(main)), LAMBDA w0 :
                 (w0.err = "none" /\ Range(args) \ Known(w0.prj) # {}) =>
                     SetPositional(args).err = "NoFilteredOutput")

\* set_filters has raised NoFilteredOutput with Data active, and 's2', which
\* is a directory under Data but no subject of the view, is such a residual.
C19_Witness ==
    /\ SetFiltersRan
    /\ lastErr = "NoFilteredOutput"
    /\ main.dc_idx = 0
    /\ S2 \in ListDir(disk, 0, <<>>)
    /\ S2 \notin Known(reset_filters(World("main"), disk, ExtOf(main)).prj)
    /\ SetPositional(<<S2>>).err = "NoFilteredOutput"



\* The stages on the index of the active dataclass with only the slot k of
\* the object's filters set (k = 7: only the extension list).
OnlyStage(k) ==
    applying_filters(main.dc_idx,
                     [i \in 1..6 |-> IF i = k THEN heap[main.fref][i] ELSE None],
                     IF k = 7 THEN main.ext_filter ELSE None,
                     cache[main.dc_idx][1])

\* The records of the index that each of the seven stages keeps when it runs
\* alone, in the order of the index.
KeptByEveryStage ==
    Select(cache[main.dc_idx][1],
           LAMBDA row : \A k \in 1..7 : row \in Range(OnlyStage(k).df.rows))

C21_AsStated ==
    (/\ Truthy(heap[main.fref][2])
     /\ Len(cache[main.dc_idx][1].rows) > 0
     /\ ~HasCol(cache[main.dc_idx][1], "Session")) =>
        /\ FilteredIndex(main).err = "none"
        /\ FilteredIndex(main)
               = applying_filters(main.dc_idx, [heap[main.fref] EXCEPT ![2] = None],
                                  main.ext_filter, cache[main.dc_idx][1])



----------------------------------------------------------------------------
(* File name tags and extensions on one folder of raw data                  *)

TRNii == <<"t", "-", "r", ".", "n", "i", "i">>
TRBNii == <<"t", "-", "r", "-", "b", ".", "n", "i", "i">>
TMNii == <<"t", "-", "m", ".", "n", "i", "i">>
MXnii == <<"m", "x", "n", "i", "i">>

TagR == <<"t", "-", "r">>
TagRB == <<"t", "-", "r", "-", "b">>
TagM == <<"t", "-", "m">>
DotNii == <<".", "n", "i", "i">>
DotJson == <<".", "j", "s", "o", "n">>

\* A rest run, a rest run marked bad, a motor run, a file whose name ends in
\* "nii" without a dot, and a parameter file.
DiskTags ==
    { File(0, <<S1, An>>, TRNii), File(0, <<S1, An>>, TRBNii),
      File(0, <<S1, An>>, TMNii), File(0, <<S1, An>>, MXnii),
      File(0, <<S1, An>>, AJson) }

TagValues == { PyStr(TagR), PyList(<<TagR, TagM>>), PyStr(DotNii), PyList(<<>>) }

IgnoreValues == { PyStr(TagRB), PyList(<<TagRB, TagM>>), PyList(<<>>) }

\* set_filters(file_tag=..., ignore=...), set_filters(file_tag=...),
\* set_filters(ignore=...)
TagCalls ==
    { FilterCall(<<>>, [NoKwargs EXCEPT !.file_tag = t, !.ignore = g],
                 <<"file_tag", "ignore">>) : t \in TagValues, g \in IgnoreValues }
    \cup { FilterCall(<<>>, [NoKwargs EXCEPT !.file_tag = t], <<"file_tag">>) :
             t \in TagValues }
    \cup { FilterCall(<<>>, [NoKwargs EXCEPT !.ignore = g], <<"ignore">>) :
             g \in IgnoreValues }

\* Values assigned to prj.ext
TagExts ==
    { PyStr(DotNii), PyList(<<DotNii>>), PyList(<<DotNii, DotJson>>), PyStr(<<>>),
      PyList(<<>>), PyFalse }

InitTags ==
    \E w \in {init(DiskTags, NoCache)} :
       /\ w.err = "none"
       /\ disk = DiskTags
       /\ cache = w.cache
       /\ main = w.prj
       /\ copy = <<>>
       /\ heap = Collect(w.heap, {w.prj.fref})
       /\ lastOp = [op |-> "__init__", on |-> "main"]
       /\ lastErr = "none"
       /\ nchanges = 0
       /\ io = NoRace

NextTags ==
    \/ \E c \in TagCalls : SetFilters("main", c, 1)
    \/ Apply("main")
    \/ \E value \in TagExts : SetExt("main", value)

SpecTags == InitTags /\ [][NextTags]_vars



\* tag occurs in s as a substring, character for character.
HasSubstring(s, tag) ==
    \E i \in 0..(Len(s) - Len(tag)) : SubSeq(s, i + 1, i + Len(tag)) = tag

\* s ends with suffix, character for character.
EndsWith(s, suffix) ==
    Len(suffix) <= Len(s) /\ SubSeq(s, Len(s) - Len(suffix) + 1, Len(s)) = suffix

AfterApply == lastOp.op = "apply" /\ lastOp.on = "main" /\ lastErr = "none"

\* The records the stages other than the two tag stages keep of the index.
WithoutTags ==
    Range(applying_filters(main.dc_idx,
                           [heap[main.fref] EXCEPT ![5] = None, ![6] = None],
                           main.ext_filter, cache[main.dc_idx][1]).df.rows)

\* C22 as stated: when file_tag and ignore have been set and apply() has
\* returned, the view holds exactly the records whose file name contains at
\* least one include tag as a substring and contains no exclude tag.
C22_AsStated ==
    (AfterApply /\ heap[main.fref][5] # None /\ heap[main.fref][6] # None) =>
        Range(main.df.rows) =
            { r \in WithoutTags :
                /\ \E i \in DOMAIN heap[main.fref][5].v :
                       HasSubstring(r["Filename"], heap[main.fref][5].v[i])
                /\ ~\E i \in DOMAIN heap[main.fref][6].v :
                       HasSubstring(r["Filename"], heap[main.fref][6].v[i]) }

\* The records the stages other than the ignore stage keep of the index.
WithoutIgnore ==
    Range(applying_filters(main.dc_idx, [heap[main.fref] EXCEPT ![6] = None],
                           main.ext_filter, cache[main.dc_idx][1]).df.rows)

\* C23 as stated: when ignore has been set, to a string or to a list that may
\* be empty, and apply() has returned, the ignore stage has dropped exactly
\* the records whose file name contains at least one of the tags.
C23_AsStated ==
    (AfterApply /\ heap[main.fref][6] # None) =>
        Range(main.df.rows) =
            { r \in WithoutIgnore :
                ~\E i \in DOMAIN heap[main.fref][6].v :
                     HasSubstring(r["Filename"], heap[main.fref][6].v[i]) }

\* The records the stages other than the extension stage keep of the index.
WithoutExt ==
    Range(applying_filters(main.dc_idx, heap[main.fref], None,
                           cache[main.dc_idx][1]).df.rows)

\* C24 as stated: when prj.ext has been assigned and the assignment has
\* returned, the view holds exactly the records whose file name ends with
\* one of the extensions, and every record when the value assigned was false
\* or empty.
C24_AsStated ==
    (lastOp.op = "ext" /\ lastOp.on = "main" /\ lastErr = "none") =>
        Range(main.df.rows) =
            IF PyNot(ExtOf(main)) THEN WithoutExt
            ELSE { r \in WithoutExt :
                     \E i \in DOMAIN main.ext_filter.v :
                         EndsWith(r["Filename"], main.ext_filter.v[i]) }



\* The distinct-value attributes and the column each is read from.
AttrColumns ==
    { <<"subjects", "Subject">>, <<"sessions", "Session">>, <<"dtypes", "DataType">>,
      <<"pipelines", "Pipeline">>, <<"steps", "Step">>, <<"results", "Report">> }

\* The sorted distinct values of a column of the view, None when the view is
\* empty or does not have the column.
DistinctOf(p, col) ==
    IF Len(p.df.rows) = 0 \/ ~HasCol(p.df, col) THEN None
    ELSE Some(Sorted({p.df.rows[i][col] : i \in DOMAIN p.df.rows}))

\* C25 as stated: when apply, set_filters, a dataclass assignment or reload
\* has returned, every distinct-value attribute is the sorted set of its
\* column over the view, and None when the view is empty or lacks the column.
C25_AsStated ==
    (/\ lastOp.op \in {"apply", "set_filters", "dataclass", "reload"}
     /\ lastOp.on = "main"
     /\ lastErr = "none") =>
        \A ac \in AttrColumns : main[ac[1]] = DistinctOf(main, ac[2])



\* C26 as stated: no operation on a Project ends with UpdateAttributesFailed.
C26_AsStated == lastErr # "UpdateAttributesFailed"



\* Values outside range(3) assigned to prj.dataclass
OutOfRange == {-1, 3}

\* C27: in every state, assigning an index outside {0, 1, 2} to prj.dataclass
\* raises InputDataclassError and leaves the object (its active dataclass,
\* view, attributes and flags), the filter lists and the cached indexes as
\* they were.
C27_OutOfRangeRejected ==
    \A idx \in OutOfRange :
        Bind(dataclass_setter(World("main"), disk, idx), LAMBDA w :
             /\ w.err = "InputDataclassError"
             /\ w.prj = main
             /\ w.heap = heap
             /\ w.cache = cache)

\* An out-of-range assignment has been rejected on a project with a
\* non-empty view and a filter slot set.
C27_Witness ==
    /\ lastOp = [op |-> "dataclass", on |-> "main"]
    /\ lastErr = "InputDataclassError"
    /\ Len(main.df.rows) > 0
    /\ heap[main.fref] # FreshFilters



\* Calls of set_filters with a keyword it does not know and with a file_tag,
\* an ignore and an ext value that is neither a str nor a list.
MisusedKeywords ==
    { <<FilterCall(<<>>, NoKwargs, <<"bad">>), "KeywordError">>,
      <<FilterCall(<<>>, [NoKwargs EXCEPT !.file_tag = PyOther], <<"file_tag">>),
        "InputTypeError">>,
      <<FilterCall(<<>>, [NoKwargs EXCEPT !.ignore = PyOther], <<"ignore">>),
        "InputTypeError">>,
      <<FilterCall(<<>>, [NoKwargs EXCEPT !.ext = PyOther], <<"ext">>),
        "InputTypeError">> }

\* C28 as stated: in every state where the reload at the start of set_filters
\* does not raise, a call with a misused keyword raises the exception named
\* for it, and a call with positional arguments that returns normally has
\* stored every argument in the subject, session, dim1 or dim2 slot.
C28_AsStated ==
    reset_filters(World("main"), disk, ExtOf(main)).err = "none" =>
        /\ \A m \in MisusedKeywords :
               set_filters(World("main"), disk, m[1].args, m[1].kwargs, m[1].keys, 1).err
                   = m[2]
        /\ \A c \in ArgCalls : \A first \in Firsts(c) :
               Bind(set_filters(World("main"), disk, c.args, c.kwargs, c.keys, first),
                    LAMBDA w :
                        w.err = "none" =>
                            \A i \in DOMAIN c.args :
                                SlotsHolding(Filters(w), c.args[i]) # {})



\* The number of columns of the table parsing_datatree stacks for the
\* dataclass c: one per path level that a file of the folder has, the
\* dataclass level included, and Filename and Abspath.
StackedColumns(d, c) ==
    IF WalkFiles(d, c) = {} THEN 0
    ELSE Cardinality(UNION {0..Len(f.dirs) : f \in WalkFiles(d, c)}) + 2

\* The column order of a classified table of the dataclass c.
Canonical(c, withSession) ==
    (IF c = 0 THEN <<"Subject">>
     ELSE IF c = 1 THEN <<"Pipeline", "Step", "Subject">>
     ELSE <<"Pipeline", "Report", "Subject">>)
    \o (IF withSession THEN <<"Session">> ELSE <<>>)
    \o (IF c = 0 THEN <<"DataType">> ELSE <<>>)
    \o <<"Filename", "Abspath">>

\* C29: for every dataclass of every tree, parsing_datatree flags a single
\* session exactly when the stacked table has 5 columns for Data and 6 for
\* Processing and Results; when scan_prj completes with records, the flag it
\* leaves is that one and the index has the canonical columns of the
\* dataclass, with Session exactly when the flag is false.
C29_LayoutByColumnCount ==
    \A c \in 0..2 :
        /\ parsing_datatree(disk, c).single_session
               = (StackedColumns(disk, c) = IF c = 0 THEN 5 ELSE 6)
        /\ Bind(scan_prj([World("main") EXCEPT !.prj.dc_idx = c], disk), LAMBDA w :
               (w.err = "none" /\ Len(w.prj.df.rows) > 0) =>
                   /\ w.prj.single_session = parsing_datatree(disk, c).single_session
                   /\ w.prj.df.cols = Canonical(c, ~w.prj.single_session)
                   /\ HasCol(w.prj.df, "Session") = ~w.prj.single_session)

\* A rescan of Processing has found the multi-session layout (7 stacked
\* columns) on a tree whose Data has the single-session layout (5).
C29_Witness ==
    /\ lastOp = [op |-> "rescan", on |-> "main"]
    /\ lastErr = "none"
    /\ main.dc_idx = 1
    /\ StackedColumns(disk, 1) = 7
    /\ ~main.single_session
    /\ HasCol(main.df, "Session")
    /\ StackedColumns(disk, 0) = 5
    /\ parsing_datatree(disk, 0).single_session



\* C30 as stated: whatever files the folders of the project hold, scan_prj
\* completes without an exception for each of the three dataclasses.
C30_AsStated ==
    \A c \in 0..2 :
        scan_prj([World("main") EXCEPT !.prj.dc_idx = c], disk).err = "none"



\* The file name ends, character for character, with one of the extensions
\* that ref_exts is built from.
HasAllowedExtension(fname) ==
    \E i \in DOMAIN (img_ext \o txt_ext) : EndsWith(fname, (img_ext \o txt_ext)[i])

\* C31 as stated: every record of the index a scan has stored for a
\* dataclass, and so every record of the view, whatever prj.ext is, has a
\* file name that ends with one of the extensions of the scan-time list.
C31_AsStated ==
    /\ \A c \in 0..2 :
           cache[c] # Missing =>
               \A i \in DOMAIN cache[c][1].rows :
                   HasAllowedExtension(cache[c][1].rows[i]["Filename"])
    /\ \A i \in DOMAIN main.df.rows : HasAllowedExtension(main.df.rows[i]["Filename"])



----------------------------------------------------------------------------
(* Project objects of several processes on one project path, inside         *)
(* scan_prj, save_df and reset(rescan=False) for the same dataclass.  The   *)
(* cache file is the inode its path names (io.path, 0 when the path names   *)
(* none); an open file keeps its inode when the path is removed.  A pickled *)
(* table reaches the file in PickleChunks writes of the buffered file       *)
(* object, and is read back in as many reads.                               *)

PickleChunks == 2

\* The bytes pickle.dump produces for a table, by chunk.
Pickled(T) == [k \in 1..PickleChunks |-> <<T, k>>]

\* A chunk of zero bytes, of no pickle.
Zeros == <<EmptyDataFrame, 0>>

\* The bytes are those of one complete pickle.dump.
Complete(bytes) ==
    /\ Len(bytes) >= PickleChunks
    /\ \A k \in 1..PickleChunks : bytes[k] = <<bytes[1][1], k>>

\* write() of chunk k at its offset; a file shorter than the offset is
\* filled with zero bytes.
WriteAt(bytes, k, chunk) ==
    [i \in 1..(IF Len(bytes) > k THEN Len(bytes) ELSE k) |->
        IF i = k THEN chunk ELSE IF i <= Len(bytes) THEN bytes[i] ELSE Zeros]

\* A process: where it is (pc), the table it holds (df), the inode of its
\* open file (ino, 0 when it has none), the chunks written or read (n) and
\* the bytes read (buf).
Proc(pc) == [pc |-> pc, df |-> EmptyDataFrame, ino |-> 0, n |-> 0, buf |-> <<>>]

\* What the processes are called to do: scan_prj (from the constructor or
\* reload) or reset(rescan=False).
RaceRoles == { <<"scan", "scan">>, <<"reset", "scan">>, <<"scan", "scan", "reset">> }

\* The file a running step writes under Data.
RaceWritten == { File(0, <<S2, An>>, MNii) }

InodesInUse(r) == {r.path} \cup {r.procs[i].ino : i \in DOMAIN r.procs}

\* An inode that neither the path nor an open file refers to is freed.
Freed(r) ==
    [r EXCEPT !.inodes = [i \in DOMAIN r.inodes |->
                             IF i \in InodesInUse(r) THEN r.inodes[i] ELSE <<>>]]

FreeInode(r) ==
    CHOOSE i \in DOMAIN r.inodes :
        i \notin InodesInUse(r) /\ \A j \in 1..(i - 1) : j \in InodesInUse(r)

RaceStep(r, op) ==
    /\ io' = Freed(r)
    /\ lastOp' = [op |-> op, on |-> "other"]
    /\ lastErr' = "none"
    /\ UNCHANGED <<disk, cache, main, copy, heap, nchanges>>

\* scan_prj up to its call of save_df: the table of the tree as it is now.
RaceScan(p) ==
    /\ io.procs[p].pc = "scan"
    /\ \E w \in {scan_prj(World("main"), disk)} :
          /\ w.err = "none"
          /\ RaceStep([io EXCEPT !.procs[p].pc = "exists", !.procs[p].df = w.prj.df],
                      "scan_prj")

\* save_df: os.path.exists(dc_df)
RaceExists(p) ==
    /\ io.procs[p].pc = "exists"
    /\ RaceStep([io EXCEPT !.procs[p].pc = IF io.path # 0 THEN "remove" ELSE "open"],
                "exists")

\* save_df: os.remove(dc_df).  When the path names no file any more the call
\* raises OSError, which the try around save_df in scan_prj swallows: the
\* process leaves save_df without writing.
RaceRemove(p) ==
    /\ io.procs[p].pc = "remove"
    /\ RaceStep(IF io.path # 0
                THEN [io EXCEPT !.path = 0, !.procs[p].pc = "open"]
                ELSE [io EXCEPT !.procs[p].pc = "done"],
                "remove")

\* save_df: open(dc_df, 'wb') creates the file or truncates the one the path
\* names.
RaceOpen(p) ==
    /\ io.procs[p].pc = "open"
    /\ \E i \in {IF io.path # 0 THEN io.path ELSE FreeInode(io)} :
          RaceStep([io EXCEPT !.path = i, !.inodes[i] = <<>>,
                              !.procs[p].pc = "write", !.procs[p].ino = i,
                              !.procs[p].n = 0],
                   "open")

\* save_df: one write of pickle.dump's output; the last one is followed by
\* the close at the end of the with block.
RaceWrite(p) ==
    /\ io.procs[p].pc = "write"
    /\ \E k \in {io.procs[p].n + 1} :
          RaceStep([io EXCEPT !.inodes[io.procs[p].ino] =
                                  WriteAt(@, k, <<io.procs[p].df, k>>),
                              !.procs[p].n = k,
                              !.procs[p].pc = IF k = PickleChunks THEN "done" ELSE "write",
                              !.procs[p].ino = IF k = PickleChunks THEN 0 ELSE @],
                   "write")

\* reset(rescan=False): open(prj_file, 'r'); IOError when the path names no
\* file, and the except clause calls scan_prj.
RaceOpenRead(p) ==
    /\ io.procs[p].pc = "reset"
    /\ RaceStep(IF io.path # 0
                THEN [io EXCEPT !.procs[p].pc = "read", !.procs[p].ino = io.path,
                                !.procs[p].n = 0, !.procs[p].buf = <<>>]
                ELSE [io EXCEPT !.procs[p].pc = "scan"],
                "open")

\* reset(rescan=False): one read of pickle.load.  At the end of the file the
\* load raises and the except clause calls scan_prj.  Bytes that are not one
\* complete pickle either make the load raise or unpickle to a table that no
\* process has written (unpickled is whether they do).
RaceRead(p, unpickled) ==
    /\ io.procs[p].pc = "read"
    /\ \E k \in {io.procs[p].n + 1} :
       \E bytes \in {io.inodes[io.procs[p].ino]} :
          RaceStep(IF Len(bytes) < k \/ bytes[k] = Zeros
                   THEN [io EXCEPT !.procs[p] = Proc("scan")]
                   ELSE IF k < PickleChunks
                   THEN [io EXCEPT !.procs[p].n = k, !.procs[p].buf = Append(@, bytes[k])]
                   ELSE IF Complete(Append(io.procs[p].buf, bytes[k]))
                   THEN [io EXCEPT !.procs[p].pc = "loaded", !.procs[p].ino = 0,
                                   !.procs[p].n = k,
                                   !.procs[p].buf = Append(@, bytes[k]),
                                   !.procs[p].df = bytes[k][1]]
                   ELSE IF unpickled
                   THEN [io EXCEPT !.procs[p].pc = "loaded", !.procs[p].ino = 0,
                                   !.procs[p].n = k,
                                   !.procs[p].buf = Append(@, bytes[k])]
                   ELSE [io EXCEPT !.procs[p] = Proc("scan")],
                   "read")

\* The project has been constructed; its cache file of the active dataclass
\* is there, or is not there yet, when the other processes start.
InitRace ==
    \E roles \in RaceRoles, there \in BOOLEAN :
        \E w \in {init(DiskRaw, NoCache)} :
           /\ w.err = "none"
           /\ disk = DiskRaw
           /\ cache = w.cache
           /\ main = w.prj
           /\ copy = <<>>
           /\ heap = Collect(w.heap, {w.prj.fref})
           /\ lastOp = [op |-> "__init__", on |-> "main"]
           /\ lastErr = "none"
           /\ nchanges = 0
           /\ io = [path |-> IF there THEN 1 ELSE 0,
                    inodes |-> [i \in 1..(Len(roles) + 1) |->
                                   IF there /\ i = 1
                                   THEN Pickled(w.cache[w.prj.dc_idx][1]) ELSE <<>>],
                    procs |-> [i \in DOMAIN roles |-> Proc(roles[i])]]

NextRace ==
    \/ \E p \in DOMAIN io.procs : RaceScan(p)
    \/ \E p \in DOMAIN io.procs : RaceExists(p)
    \/ \E p \in DOMAIN io.procs : RaceRemove(p)
    \/ \E p \in DOMAIN io.procs : RaceOpen(p)
    \/ \E p \in DOMAIN io.procs : RaceWrite(p)
    \/ \E p \in DOMAIN io.procs : RaceOpenRead(p)
    \/ \E p \in DOMAIN io.procs, unpickled \in BOOLEAN : RaceRead(p, unpickled)
    \/ \E f \in RaceWritten : DiskWrite(f)

SpecRace == InitRace /\ [][NextRace]_vars



\* C32 as stated: however the steps of the processes interleave, no step
\* ends with an exception, a reset that has loaded the cache file has loaded
\* the complete output of one save_df, and when every process has finished,
\* the cache file exists and holds the complete output of one save_df.
C32_AsStated ==
    /\ lastErr = "none"
    /\ \A p \in DOMAIN io.procs :
           io.procs[p].pc = "loaded" => Complete(io.procs[p].buf)
    /\ (/\ io.procs # <<>>
        /\ \A p \in DOMAIN io.procs : io.procs[p].pc \in {"done", "loaded"}) =>
           io.path # 0 /\ Complete(io.inodes[io.path])



\* Calls of set_filters made on a Project whose slots may hold the values of
\* earlier calls.
FollowingCalls ==
    FilterCalls
    \cup { FilterCall(<<>>, [NoKwargs EXCEPT !.ignore = PyStr(<<"r", "b">>)], <<"ignore">>),
           FilterCall(<<S1>>, NoKwargs, <<>>),
           FilterCall(<<An>>, [NoKwargs EXCEPT !.dataclass = 0], <<"dataclass">>) }

\* The value a tag slot has after a call that started from cleared slots.
SuppliedTags(c, key) ==
    IF \E i \in DOMAIN c.keys : c.keys[i] = key THEN Some(c.kwargs[key].v) ELSE None

\* The slots hold nothing but what the call c supplied: the tag slots its
\* file_tag and ignore values, the other slots some of its positional
\* arguments, each once.
OnlySupplied(F, c) ==
    /\ F[5] = SuppliedTags(c, "file_tag")
    /\ F[6] = SuppliedTags(c, "ignore")
    /\ \A slot \in 1..4 :
          /\ Range(F[slot].v) \subseteq Range(c.args)
          /\ Cardinality(Range(F[slot].v)) = Len(F[slot].v)

\* C33: in every state, whatever the slots hold from earlier calls and
\* assignments, a set_filters call that returns normally leaves in the slots
\* only what the call itself supplied, and, when the call has no dataclass
\* keyword, leaves as the view the reloaded index narrowed by no slot.
C33_StartsClean ==
    \A c \in FollowingCalls : \A first \in Firsts(c) :
        Bind(set_filters(World("main"), disk, c.args, c.kwargs, c.keys, first),
             LAMBDA w :
                 w.err = "none" =>
                     /\ OnlySupplied(Filters(w), c)
                     /\ c.keys # <<"dataclass">> =>
                            w.prj.df = applying_filters(w.prj.dc_idx, FreshFilters,
                                                        w.prj.ext_filter,
                                                        w.cache[w.prj.dc_idx][1]).df)

\* set_filters(ignore=...) returns normally on a Project whose subject and
\* include-tag slots hold values of earlier calls.
C33_Witness ==
    /\ Truthy(heap[main.fref][5])
    /\ Truthy(heap[main.fref][1])
    /\ Len(main.df.rows) > 0
    /\ set_filters(World("main"), disk, <<>>,
                   [NoKwargs EXCEPT !.ignore = PyStr(<<"r", "b">>)], <<"ignore">>, 1).err
           = "none"



\* C34 as stated: in every state, a set_filters call that raises KeywordError,
\* InputTypeError or NoFilteredOutput leaves the six slots, the extension
\* list, the active dataclass and the view as they were before the call.
C34_AsStated ==
    \A c \in FilterCalls :
        Bind(set_filters(World("main"), disk, c.args, c.kwargs, c.keys, 1), LAMBDA w :
             w.err \in {"KeywordError", "InputTypeError", "NoFilteredOutput"} =>
                 /\ Filters(w) = heap[main.fref]
                 /\ w.prj.ext_filter = main.ext_filter
                 /\ w.prj.dc_idx = main.dc_idx
                 /\ w.prj.df = main.df)



\* Keyword sets of a set_filters call with the positional argument 's2'.
OrderedKwargs ==
    { [NoKwargs EXCEPT !.dataclass = 0, !.ignore = PyStr(<<"r", "b">>)],
      [NoKwargs EXCEPT !.dataclass = 0, !.ignore = PyStr(<<"m">>)] }

\* What a set_filters call leaves that its caller can see: the exception,
\* the slots, the active dataclass and the view.
OutcomeOf(w) == <<w.err, Filters(w), w.prj.dc_idx, w.prj.df>>

\* C35 as stated: in every state, set_filters('s2', dataclass=0, ignore=...)
\* has the same outcome whether the loop over the keywords yields dataclass
\* before ignore or ignore before dataclass.
C35_AsStated ==
    \A kwargs \in OrderedKwargs :
        OutcomeOf(set_filters(World("main"), disk, <<S2>>, kwargs,
                              <<"dataclass", "ignore">>, 1))
            = OutcomeOf(set_filters(World("main"), disk, <<S2>>, kwargs,
                                    <<"ignore", "dataclass">>, 1))



\* C36 as stated: in every state, also when prj.ext has been cleared, a
\* set_filters call without the ext keyword that returns normally leaves the
\* extension list as it was.
C36_AsStated ==
    \A c \in FilterCalls :
        Bind(set_filters(World("main"), disk, c.args, c.kwargs, c.keys, 1), LAMBDA w :
             w.err = "none" => w.prj.ext_filter = main.ext_filter)



\* C37: after construction the active dataclass is one whose index holds a
\* record that passes the default extension filter, when there is one; when
\* there is none, whatever other files the folders hold, the active dataclass
\* is Results, the empty-project flag is true and the view is empty.
C37_ImagesDecide ==
    AfterInit =>
        /\ ImageClasses # {} => main.dc_idx \in ImageClasses /\ ~main.empty_project
        /\ ImageClasses = {} =>
               /\ main.dc_idx = 2
               /\ main.empty_project
               /\ Len(main.df.rows) = 0

\* Constructed on a tree whose only files are under Data and Processing and
\* none of them is counted: the active dataclass is Results.
C37_Witness ==
    /\ AfterInit
    /\ disk # {}
    /\ \A f \in disk : f.dc # 2
    /\ ImageClasses = {}
    /\ main.dc_idx = 2



\* The first segment of a path.
RECURSIVE FirstSegment(_)
FirstSegment(path) ==
    IF path = <<>> \/ Head(path) = "/" THEN <<>>
    ELSE <<Head(path)>> \o FirstSegment(Tail(path))

\* The distinct-value attributes of p hold only values that a record of its
\* view has in the attribute's column.
AttributesOfView(p) ==
    \A ac \in AttrColumns :
        \A i \in DOMAIN p[ac[1]].v :
            /\ HasCol(p.df, ac[2])
            /\ \E j \in DOMAIN p.df.rows : p.df.rows[j][ac[2]] = p[ac[1]].v[i]

\* C38: when the constructor, a dataclass assignment, set_filters, apply, an
\* ext assignment or reload has returned, every record of the view has its
\* path under the folder of the active dataclass, and every distinct value
\* the object holds is a value of a record of the view.
C38_ViewOfActiveClass ==
    (/\ lastOp.op \in {"__init__", "dataclass", "set_filters", "apply", "ext", "reload"}
     /\ lastOp.on = "main"
     /\ lastErr = "none") =>
        /\ \A i \in DOMAIN main.df.rows :
               FirstSegment(main.df.rows[i]["Abspath"]) = ds_type[main.dc_idx + 1]
        /\ AttributesOfView(main)


\* reload has returned on a project whose Processing and Results folders,
\* which it scans before the active dataclass, hold records, and the view of
\* the active dataclass, Data, has records.
C38_Witness ==
    /\ lastOp = [op |-> "reload", on |-> "main"]
    /\ lastErr = "none"
    /\ main.dc_idx = 0
    /\ Len(main.df.rows) > 0
    /\ \A c \in {1, 2} : cache[c] # Missing /\ Len(cache[c][1].rows) > 0

====
